---- MODULE Spec2Model ----
(***************************************************************************)
(* Model of the content pipeline of the blog: the post repository          *)
(* (lib/api: getPostSlugs, getPostBySlug, getAllPosts), the markdown       *)
(* transformer (lib/markdownToHtml) and the static-generation hooks of the *)
(* post page (pages/posts/[slug]: getStaticPaths, getStaticProps).         *)
(*                                                                         *)
(* A JavaScript string is modelled as a sequence of one-character strings, *)
(* so that the regular expression scan, String.prototype.replace and the   *)
(* string comparison of dates are computed character by character.         *)
(***************************************************************************)
EXTENDS Integers, Sequences, FiniteSets, TLC

VARIABLES
    env,        \* process.env.NODE_ENV of the build (markdownToHtml.ts:8)
    dir,        \* the _posts directory, postsDirectory (lib/api:6): entry name -> entry
    call,       \* the last repository / page-hook call and its arguments
    ret,        \* what that call returned or threw
    paths,      \* the paths the framework holds from getStaticPaths ([slug].tsx:205)
    cache,      \* matter.cache, kept by the module lib/api:19 calls: the texts kept
                \* there unparsed
    mdPc,       \* position of the running markdownToHtml call
    mdIn,       \* its argument `markdown` (markdownToHtml.ts:5)
    content,    \* its local `content` (markdownToHtml.ts:6)
    lastIndex,  \* regex.lastIndex of its local `regex` (markdownToHtml.ts:9)
    text,       \* the value generateIdFromText is called with (lib/ids:1), or the
                \* text of the level-two heading of the page being rendered
    idRet,      \* what that call returned or threw
    toc,        \* the links TableOfContents rendered (table-of-contents.tsx:14)
    h2          \* the heading PostBody rendered (post-body.tsx:43)

vars == <<env, dir, call, ret, paths, cache, mdPc, mdIn, content, lastIndex, text, idRet, toc, h2>>

repoVars == <<env, dir, call, ret, paths, cache>>
mdVars == <<mdPc, mdIn, content, lastIndex>>
idVars == <<text, idRet, toc, h2>>

---------------------------------------------------------------------------
(* Bounds of the model *)

\* most entries in the content directory
MaxEntries == 2
\* most segments a generated markdown body is made of
MaxSegs == 2
\* the rewrite loop is followed while `content` is at most this long
MaxContentLen == 40
\* most iterations of the rewrite loop followed inside getStaticProps
MaxRewrites == 6
\* most segments a generated heading is made of
MaxHeadingSegs == 5

---------------------------------------------------------------------------
(* Strings *)

StartsWithAt(s, i, p) ==
    /\ i >= 1
    /\ i + Len(p) - 1 <= Len(s)
    /\ SubSeq(s, i, i + Len(p) - 1) = p

EndsWith(s, p) == Len(s) >= Len(p) /\ StartsWithAt(s, Len(s) - Len(p) + 1, p)

\* s.indexOf(p, from) with 1-based positions; 0 when p does not occur
IndexOfFrom(s, p, from) ==
    LET hits == {i \in from..(Len(s) - Len(p) + 1) : StartsWithAt(s, i, p)}
    IN IF hits = {} THEN 0 ELSE CHOOSE i \in hits : \A j \in hits : i <= j

IndexOf(s, p) == IndexOfFrom(s, p, 1)

Drop(s, n) == SubSeq(s, n + 1, Len(s))

RECURSIVE Concat(_)
Concat(ss) == IF ss = <<>> THEN <<>> ELSE Head(ss) \o Concat(Tail(ss))

\* the characters of the model in code-unit order
CodeUnits ==
    <<"\n", " ", "!", "$", "&", "'", "(", ")", "-", ".", "/", "0", "1", "2", "9",
      "T", "[", "]", "a", "b", "d", "g", "k", "l", "m", "o", "t", "x", "z">>

CodeOf(c) == CHOOSE i \in 1..Len(CodeUnits) : CodeUnits[i] = c

\* a > b on two strings: the comparison of the code units at the first difference
RECURSIVE StrGt(_, _)
StrGt(a, b) ==
    IF a = <<>> THEN FALSE
    ELSE IF b = <<>> THEN TRUE
    ELSE IF Head(a) = Head(b) THEN StrGt(Tail(a), Tail(b))
    ELSE CodeOf(Head(a)) > CodeOf(Head(b))

---------------------------------------------------------------------------
(* lib/markdownToHtml *)

NewLine == <<"\n">>
Delimiter == <<"-", "-", "-">>
BasePath == <<"/", "b", "l", "o", "g">>

\* matter(markdown).content: the text after the front-matter block.  A text that
\* does not open with the delimiter (or opens with four dashes) is all content;
\* an opened block that is never closed leaves no content; one line break after
\* the closing delimiter is dropped.
MatterContent(markdown) ==
    IF ~StartsWithAt(markdown, 1, Delimiter) THEN markdown
    ELSE IF StartsWithAt(markdown, 4, <<"-">>) THEN markdown
    ELSE LET str == Drop(markdown, 3)
             close == NewLine \o Delimiter
             closeIndex == IndexOf(str, close)
             rest == Drop(str, closeIndex - 1 + Len(close))
         IN IF closeIndex = 0 THEN <<>>
            ELSE IF StartsWithAt(rest, 1, NewLine) THEN Drop(rest, 1)
            ELSE rest

\* `.` of the regular expression: any character but a line terminator
NoLineBreak(s, from, to) == \A i \in from..to : s[i] # "\n"

\* The matches of /\!\[(.*?)\]\((.*?)\)/ that start at position start:
\* sep is the position of the "](" that ends the alt text, close the position of
\* the ")" that ends the path.
MatchesAt(s, start) ==
    IF ~StartsWithAt(s, start, <<"!", "[">>) THEN {}
    ELSE {m \in ((start + 2)..Len(s)) \X ((start + 4)..Len(s)) :
            /\ StartsWithAt(s, m[1], <<"]", "(">>)
            /\ NoLineBreak(s, start + 2, m[1] - 1)
            /\ m[2] >= m[1] + 2
            /\ s[m[2]] = ")"
            /\ NoLineBreak(s, m[1] + 2, m[2] - 1)}

\* regex.exec(s) with regex.lastIndex = from (0-based): the leftmost match at or
\* after from, both groups lazy (the shortest alt text, then the shortest path).
\* The result's lastIndex is where the next scan begins.
RegexExec(s, from) ==
    LET starts == {i \in (from + 1)..Len(s) : MatchesAt(s, i) # {}}
    IN IF starts = {} THEN [found |-> FALSE, start |-> 0, sep |-> 0, lastIndex |-> 0, path |-> <<>>]
       ELSE LET start == CHOOSE i \in starts : \A j \in starts : i <= j
                ms == MatchesAt(s, start)
                sep == CHOOSE j \in {m[1] : m \in ms} : \A m \in ms : j <= m[1]
                close == CHOOSE k \in {m[2] : m \in ms} :
                            /\ <<sep, k>> \in ms
                            /\ \A m \in ms : m[1] = sep => k <= m[2]
            IN [found |-> TRUE, start |-> start, sep |-> sep, lastIndex |-> close,
                path |-> SubSeq(s, sep + 2, close - 1)]

\* GetSubstitution of String.prototype.replace for a string pattern: in the
\* replacement "$$" stands for "$", "$&" for the matched text and "$'" for the
\* text after the match; every other character stands for itself.
RECURSIVE GetSubstitution(_, _, _)
GetSubstitution(replacement, matched, after) ==
    IF replacement = <<>> THEN <<>>
    ELSE IF StartsWithAt(replacement, 1, <<"$", "$">>)
        THEN <<"$">> \o GetSubstitution(Drop(replacement, 2), matched, after)
    ELSE IF StartsWithAt(replacement, 1, <<"$", "&">>)
        THEN matched \o GetSubstitution(Drop(replacement, 2), matched, after)
    ELSE IF StartsWithAt(replacement, 1, <<"$", "'">>)
        THEN after \o GetSubstitution(Drop(replacement, 2), matched, after)
    ELSE <<Head(replacement)>> \o GetSubstitution(Tail(replacement), matched, after)

\* s.replace(pattern, replacement) with a string pattern: the first occurrence
\* of pattern in s, wherever it is, is replaced
StringReplace(s, pattern, replacement) ==
    LET i == IndexOf(s, pattern)
        after == Drop(s, i - 1 + Len(pattern))
    IN IF i = 0 THEN s
       ELSE SubSeq(s, 1, i - 1) \o GetSubstitution(replacement, pattern, after) \o after

\* line 13: content.replace("](" + matches[2], `](/blog${matches[2]}`)
RewriteMatch(s, path) ==
    StringReplace(s, <<"]", "(">> \o path, <<"]", "(">> \o BasePath \o path)

\* lines 12-14 run inside one call: up to fuel iterations of the loop
RECURSIVE RewriteLoop(_, _, _)
RewriteLoop(s, from, fuel) ==
    LET m == RegexExec(s, from)
    IN IF ~m.found THEN [returned |-> TRUE, content |-> s]
       ELSE IF fuel = 0 THEN [returned |-> FALSE, content |-> s]
       ELSE RewriteLoop(RewriteMatch(s, m.path), m.lastIndex, fuel - 1)

\* the rewrite is made under every NODE_ENV
InProductionAlways(mode) == TRUE

\* line 8: process.env.NODE_ENV === "production"
InProduction(mode) == mode = "production"

\* markdownToHtml(markdown) under NODE_ENV = mode; returned is FALSE when the
\* loop is still running after MaxRewrites iterations
MarkdownToHtml(markdown, mode) ==
    IF InProduction(mode) THEN RewriteLoop(MatterContent(markdown), 0, MaxRewrites)
    ELSE [returned |-> TRUE, content |-> MatterContent(markdown)]

(* The documents the transformer is run on *)

FrontMatterBlock == <<"-", "-", "-", "\n", "k", "\n", "-", "-", "-", "\n">>
ImageX == <<"!", "[", "a", "]", "(", "/", "x", ")">>
ImageBlogX == <<"!", "[", "a", "]", "(", "/", "b", "l", "o", "g", "/", "x", ")">>
ImageEmpty == <<"!", "[", "]", "(", ")">>
LinkX == <<"[", "t", "]", "(", "/", "x", ")">>
TextLine == <<"t", "\n">>

Segments == {ImageX, ImageBlogX, ImageEmpty, LinkX, TextLine}

RECURSIVE SeqsUpTo(_, _)
SeqsUpTo(S, n) ==
    IF n = 0 THEN {<<>>}
    ELSE LET shorter == SeqsUpTo(S, n - 1)
         IN shorter \cup {Append(q, x) : q \in shorter, x \in S}

Bodies == {Concat(segs) : segs \in SeqsUpTo(Segments, MaxSegs)}

Documents == Bodies \cup {FrontMatterBlock \o b : b \in Bodies}

Modes == {"production", "development"}


---------------------------------------------------------------------------
(* Front-matter values *)

\* A parsed YAML value: its JavaScript type and its text
Str(s) == [t |-> "string", s |-> s]
Bool(b) == [t |-> "boolean", s |-> IF b THEN <<"1">> ELSE <<"0">>]
Num(digits) == [t |-> "number", s |-> digits]

\* Boolean(v) of a defined value: false, 0 and "" are falsy
Truthy(v) ==
    CASE v.t = "boolean" -> v.s = <<"1">>
      [] v.t = "number" -> v.s # <<"0">>
      [] OTHER -> v.s # <<>>

\* an object without own properties
NoItems == [k \in {} |-> Str(<<>>)]

\* obj[k] = v
Put(obj, k, v) == [x \in (DOMAIN obj) \cup {k} |-> IF x = k THEN v ELSE obj[x]]

---------------------------------------------------------------------------
(* lib/ids: generateIdFromText *)

\* stands for the one character U+0060, the delimiter of an inline code span
Backtick == "BACKTICK"

LowerCase ==
    <<"a", "b", "c", "d", "e", "f", "g", "h", "i", "j", "k", "l", "m",
      "n", "o", "p", "q", "r", "s", "t", "u", "v", "w", "x", "y", "z">>
UpperCase ==
    <<"A", "B", "C", "D", "E", "F", "G", "H", "I", "J", "K", "L", "M",
      "N", "O", "P", "Q", "R", "S", "T", "U", "V", "W", "X", "Y", "Z">>

\* /[a-z]/i on one character
IsLetter(c) == \E i \in 1..Len(LowerCase) : c = LowerCase[i] \/ c = UpperCase[i]

\* c.toLowerCase()
ToLowerCase(c) ==
    IF \E i \in 1..Len(UpperCase) : c = UpperCase[i]
        THEN LowerCase[CHOOSE i \in 1..Len(UpperCase) : c = UpperCase[i]]
        ELSE c

\* the white space String.prototype.trim removes
WhiteSpace == {" ", "\t", "\n"}

\* the string is returned with its white space
TrimNothing(s) == s

\* s.trim()
RECURSIVE Trim(_)
Trim(s) ==
    IF s = <<>> THEN s
    ELSE IF Head(s) \in WhiteSpace THEN Trim(Tail(s))
    ELSE IF s[Len(s)] \in WhiteSpace THEN Trim(SubSeq(s, 1, Len(s) - 1))
    ELSE s

\* /`[a-z]+`/gi tried at position i: the position of the backtick that ends the
\* match, 0 when there is no match at i.  [a-z]+ takes the whole run of letters,
\* and a backtick has to follow it.
CodeSpanEnd(s, i) ==
    IF i > Len(s) \/ s[i] # Backtick THEN 0
    ELSE LET stops == {j \in (i + 1)..Len(s) : ~IsLetter(s[j])}
             stop == IF stops = {} THEN 0 ELSE CHOOSE j \in stops : \A k \in stops : j <= k
         IN IF stop > i + 1 /\ s[stop] = Backtick THEN stop ELSE 0

\* no span is removed
RemoveNoCodeSpans(s) == s

\* text.replaceAll(/`[a-z]+`/gi, ""): the matches are found from left to right,
\* each scan starting after the match before it
RECURSIVE RemoveCodeSpans(_)
RemoveCodeSpans(s) ==
    IF s = <<>> THEN s
    ELSE IF CodeSpanEnd(s, 1) # 0 THEN RemoveCodeSpans(Drop(s, CodeSpanEnd(s, 1)))
    ELSE <<Head(s)>> \o RemoveCodeSpans(Tail(s))

\* every character passes the filter
IsAnyCharacter(c) == TRUE

\* the hyphen passes the filter too
IsLetterSpaceOrHyphen(c) == IsLetter(c) \/ c \in {" ", "-"}

\* line 10: /[a-z ]/i.test(c)
IsLetterOrSpace(c) == IsLetter(c) \/ c = " "

\* the letters keep their case
HyphenOrSameCase(c) == IF c = " " THEN "-" ELSE c

\* line 11: c === " " ? "-" : c.toLowerCase()
HyphenOrLowerCase(c) == IF c = " " THEN "-" ELSE ToLowerCase(c)

\* typeof value
TypeOf(value) ==
    CASE value.t \in {"string", "number", "boolean", "undefined"} -> value.t
      [] OTHER -> "object"

Undefined == [t |-> "undefined", s |-> <<>>]
Null == [t |-> "null", s |-> <<>>]
Object == [t |-> "object", s |-> <<>>]
\* a React element, s the text inside it
Element(s) == [t |-> "element", s |-> s]

NoId == [status |-> "none", id |-> <<>>]

\* a value that is not a string is turned into one: String(value)
GenerateIdFromAnything(value) ==
    LET kept == SelectSeq(Trim(RemoveCodeSpans(value.s)), IsLetterOrSpace)
    IN [status |-> "ok", id |-> [i \in 1..Len(kept) |-> HyphenOrLowerCase(kept[i])]]

\* generateIdFromText(text): the identifier, or the Error thrown at line 3
GenerateIdFromText(value) ==
    IF TypeOf(value) # "string" THEN [status |-> "error", id |-> <<>>]
    ELSE LET kept == SelectSeq(Trim(RemoveCodeSpans(value.s)), IsLetterOrSpace)
         IN [status |-> "ok", id |-> [i \in 1..Len(kept) |-> HyphenOrLowerCase(kept[i])]]

(* The two call sites of the post page *)

HeadingMark == <<"#", "#", " ">>

\* content.split("\n")
RECURSIVE SplitLines(_)
SplitLines(s) ==
    LET i == IndexOf(s, NewLine)
    IN IF i = 0 THEN <<s>> ELSE <<SubSeq(s, 1, i - 1)>> \o SplitLines(Drop(s, i))

\* [slug].tsx lines 184-188: the lines that begin, once trimmed, with "## ",
\* without their first "## " and trimmed again
L2Headings(markdown) ==
    LET lines == SplitLines(markdown)
        trimmed == [i \in 1..Len(lines) |-> Trim(lines[i])]
        isHeading(line) == StartsWithAt(line, 1, HeadingMark)
        headings == SelectSeq(trimmed, isHeading)
    IN [i \in 1..Len(headings) |-> Trim(StringReplace(headings[i], HeadingMark, <<>>))]

\* table-of-contents.tsx lines 14-16: the href of the link of every heading
TableOfContents(headings) ==
    LET ids == [i \in 1..Len(headings) |-> GenerateIdFromText(Str(headings[i]))]
    IN IF \E i \in 1..Len(ids) : ids[i].status = "error"
           THEN [status |-> "error", hrefs |-> <<>>]
           ELSE [status |-> "ok", hrefs |-> [i \in 1..Len(ids) |-> <<"#">> \o ids[i].id]]

\* the length of the run of backticks that begins at position i
RECURSIVE BacktickRun(_, _)
BacktickRun(s, i) ==
    IF i > Len(s) \/ s[i] # Backtick THEN 0 ELSE 1 + BacktickRun(s, i + 1)

\* The children ReactMarkdown hands to the h2 component for the inline text s
\* of a heading: the text runs as strings and the inline code spans as <code>
\* elements.  A run of n backticks opens a code span that the next run of
\* exactly n backticks closes; a run that nothing closes is text.
RECURSIVE InlineNodes(_, _)
InlineNodes(s, run) ==
    LET flush == IF run = <<>> THEN <<>> ELSE <<Str(run)>>
        n == BacktickRun(s, 1)
        closers == {j \in (n + 1)..Len(s) :
                        /\ s[j] = Backtick
                        /\ s[j - 1] # Backtick
                        /\ BacktickRun(s, j) = n}
        closer == CHOOSE j \in closers : \A k \in closers : j <= k
    IN IF s = <<>> THEN flush
       ELSE IF n = 0 THEN InlineNodes(Tail(s), Append(run, Head(s)))
       ELSE IF closers = {} THEN InlineNodes(Drop(s, n), run \o SubSeq(s, 1, n))
       ELSE flush \o <<Element(SubSeq(s, n + 1, closer - 1))>>
                  \o InlineNodes(Drop(s, closer + n - 1), <<>>)

\* the children of the h2 of the line "## " + heading
H2Children(heading) == InlineNodes(Trim(heading), <<>>)

\* post-body.tsx lines 43-49: the id of the h2 is made of its first child.  An
\* h2 without children is created without the children property, and
\* props.children[0] throws a TypeError before generateIdFromText is called.
H2(heading) ==
    LET children == H2Children(heading)
    IN IF children = <<>> THEN [status |-> "TypeError", id |-> <<>>]
       ELSE GenerateIdFromText(children[1])

\* the number of spaces a line begins with
RECURSIVE Indentation(_)
Indentation(line) ==
    IF line = <<>> \/ Head(line) # " " THEN 0 ELSE 1 + Indentation(Tail(line))

\* a line that opens a fenced code block: at most three spaces, then three
\* backticks or more
OpensFence(line) ==
    /\ Indentation(line) <= 3
    /\ BacktickRun(line, Indentation(line) + 1) >= 3

\* a line that closes the fenced code block: at most three spaces, three
\* backticks or more, and white space only to the end of the line
ClosesFence(line) ==
    /\ OpensFence(line)
    /\ Trim(Drop(line, Indentation(line) + BacktickRun(line, Indentation(line) + 1))) = <<>>

\* a line that is a level-two heading: at most three spaces, two number signs,
\* and then a space or the end of the line
IsH2Line(line) ==
    /\ Indentation(line) <= 3
    /\ StartsWithAt(line, Indentation(line) + 1, <<"#", "#">>)
    /\ \/ Len(line) = Indentation(line) + 2
       \/ line[Indentation(line) + 3] = " "

\* The texts of the h2 elements ReactMarkdown renders for the lines from i on,
\* in the order of the document: the level-two heading lines that are outside
\* the fenced code blocks.  A fence that is not closed runs to the end of the
\* document.
RECURSIVE RenderedFrom(_, _, _)
RenderedFrom(lines, i, fenced) ==
    IF i > Len(lines) THEN <<>>
    ELSE IF fenced THEN RenderedFrom(lines, i + 1, ~ClosesFence(lines[i]))
    ELSE IF OpensFence(lines[i]) THEN RenderedFrom(lines, i + 1, TRUE)
    ELSE IF IsH2Line(lines[i])
        THEN <<Trim(Drop(lines[i], Indentation(lines[i]) + 2))>> \o RenderedFrom(lines, i + 1, FALSE)
    ELSE RenderedFrom(lines, i + 1, FALSE)

\* post-body.tsx lines 39-52: the h2 elements of the rendered content
RenderedHeadings(markdown) == RenderedFrom(SplitLines(markdown), 1, FALSE)

(* The values generateIdFromText is called with, and the headings rendered *)

Word == <<"A", "b">>
Space == <<" ">>
CodeLower == <<Backtick, "a", Backtick>>
CodeUpper == <<Backtick, "B", Backtick>>
Other == <<"1", "!">>

HeadingSegments == {Word, Space, CodeLower, CodeUpper, Other}

Headings == {Concat(segs) : segs \in SeqsUpTo(HeadingSegments, MaxHeadingSegs)}

NonStrings == {Undefined, Null, Num(<<"1">>), Object, Element(Word)}

IdInputs == {Str(h) : h \in Headings} \cup NonStrings

NoToc == [status |-> "none", hrefs |-> <<>>]

IdIdle == text = Undefined /\ idRet = NoId /\ toc = NoToc /\ h2 = NoId

---------------------------------------------------------------------------
(* lib/api: the post repository *)

DotMd == <<".", "m", "d">>

\* line 16: slug.replace(/\.md$/, "")
RealSlug(slug) == IF EndsWith(slug, DotMd) THEN SubSeq(slug, 1, Len(slug) - Len(DotMd)) ELSE slug

\* line 17: the file read for slug, as a name inside postsDirectory
FullPath(slug) == RealSlug(slug) \o DotMd

\* line 9: fs.readdirSync(postsDirectory) returns the entry names in an order
\* of the file system's choosing
Listings(d) ==
    {l \in [1..Cardinality(DOMAIN d) -> DOMAIN d] : \A i, j \in DOMAIN l : i # j => l[i] # l[j]}

\* the keys of the front-matter of the posts, in the order they are written
Keys == <<"title", "date", "publish", "slug">>

KeyText(key) ==
    CASE key = "title" -> <<"t", "i", "t", "l", "e">>
      [] key = "date" -> <<"d", "a", "t", "e">>
      [] key = "publish" -> <<"p", "u", "b", "l", "i", "s", "h">>
      [] key = "slug" -> <<"s", "l", "u", "g">>

\* a value as YAML writes it: a string between quotes, a number by its digits
ValueText(v) ==
    CASE v.t = "boolean" -> IF v.s = <<"1">> THEN <<"t", "r", "u", "e">> ELSE <<"f", "a", "l", "s", "e">>
      [] v.t = "number" -> v.s
      [] OTHER -> <<"\"">> \o v.s \o <<"\"">>

\* the lines between the delimiters of the front-matter block of a file; the
\* block of a malformed file ends with a line that opens a list and leaves it open
RECURSIVE YamlText(_, _)
YamlText(file, keys) ==
    IF keys = <<>> THEN (IF file.malformed THEN <<"k", ":", " ", "[">> \o NewLine ELSE <<>>)
    ELSE (IF Head(keys) \in DOMAIN file.data
             THEN KeyText(Head(keys)) \o <<":", " ">> \o ValueText(file.data[Head(keys)]) \o NewLine
             ELSE <<>>)
         \o YamlText(file, Tail(keys))

\* line 18: fileContents, the text fs.readFileSync returns for a file: its
\* front-matter block and the text after it
FileContents(file) ==
    Delimiter \o NewLine \o YamlText(file, Keys) \o Delimiter \o NewLine \o file.content

\* lines 18-19: fs.readFileSync throws for a missing entry (ENOENT) and for a
\* directory (EISDIR); matter, when it parses, throws for front-matter that is
\* not valid YAML
ReadError(d, path) ==
    IF path \notin DOMAIN d THEN "ENOENT"
    ELSE IF d[path].kind = "directory" THEN "EISDIR"
    ELSE IF d[path].malformed THEN "YAMLException"
    ELSE "none"

\* matter.cache: matter(input), called without options, keeps the file object of
\* input under its text before it parses it, and returns the object kept for a
\* text it was called with before.  The object of a text whose parse threw is
\* kept as it was at the throw: without data, its content the whole text.  The
\* objects of the texts parsed well are what parsing them again gives, and the
\* model keeps the texts of the others only.
Cached(file) == FileContents(file) \in cache

\* line 19: the file object matter(fileContents) returns when it does not throw
Matter(file) ==
    IF file.malformed THEN [data |-> NoItems, content |-> FileContents(file)]
    ELSE [data |-> file.data, content |-> MatterContent(FileContents(file))]

\* matter.cache after the first reads entries of listing were read and parsed
CacheAfter(d, listing, reads) ==
    cache \cup {FileContents(d[FullPath(listing[i])]) : i \in
                    {j \in 1..reads : /\ FullPath(listing[j]) \in DOMAIN d
                                       /\ d[FullPath(listing[j])].kind = "file"
                                       /\ d[FullPath(listing[j])].malformed}}

\* the forEach body without the test of line 25: slug is set for every field
PickFieldAlwaysSlug(items, field, realSlug, file) ==
    LET named == Put(items, "slug", Str(realSlug))
        bodied == IF field = "content" THEN Put(named, field, Str(file.content)) ELSE named
    IN IF field \in DOMAIN file.data THEN Put(bodied, field, file.data[field]) ELSE bodied

\* the forEach body without the test of line 32: an absent field is stored empty
PickFieldDefaulted(items, field, realSlug, file) ==
    LET named == IF field = "slug" THEN Put(items, field, Str(realSlug)) ELSE items
        bodied == IF field = "content" THEN Put(named, field, Str(file.content)) ELSE named
    IN IF field \in DOMAIN file.data THEN Put(bodied, field, file.data[field])
       ELSE IF field \in {"slug", "content"} THEN bodied
       ELSE Put(bodied, field, Str(<<>>))

\* the forEach body with markdownToHtml run on the content
PickFieldTransformed(items, field, realSlug, file) ==
    LET named == IF field = "slug" THEN Put(items, field, Str(realSlug)) ELSE items
        bodied == IF field = "content"
                      THEN Put(named, field, Str(MarkdownToHtml(file.content, env).content))
                      ELSE named
    IN IF field \in DOMAIN file.data THEN Put(bodied, field, file.data[field]) ELSE bodied

\* lines 25-34: the body of fields.forEach
PickField(items, field, realSlug, file) ==
    LET named == IF field = "slug" THEN Put(items, field, Str(realSlug)) ELSE items
        bodied == IF field = "content" THEN Put(named, field, Str(file.content)) ELSE named
    IN IF field \in DOMAIN file.data THEN Put(bodied, field, file.data[field]) ELSE bodied

RECURSIVE PickFields(_, _, _, _)
PickFields(items, fields, realSlug, file) ==
    IF fields = <<>> THEN items
    ELSE PickFields(PickField(items, Head(fields), realSlug, file), Tail(fields), realSlug, file)

\* getPostBySlug with the read wrapped in a catch that returns an empty object
GetPostBySlugCatching(d, slug, fields) ==
    LET err == ReadError(d, FullPath(slug))
    IN IF err # "none" THEN [status |-> "ok", error |-> "none", items |-> NoItems, reads |-> 1]
       ELSE [status |-> "ok", error |-> "none",
             items |-> PickFields(NoItems, fields, RealSlug(slug), Matter(d[FullPath(slug)])),
             reads |-> 1]

\* lines 12-38: getPostBySlug(slug, fields) on directory d.  reads counts the
\* calls of fs.readFileSync.  matter does not parse, and so does not throw,
\* for a text it keeps.
GetPostBySlug(d, slug, fields) ==
    LET fresh == ReadError(d, FullPath(slug))
        err == IF fresh = "YAMLException" /\ Cached(d[FullPath(slug)]) THEN "none" ELSE fresh
    IN IF err # "none" THEN [status |-> "error", error |-> err, items |-> NoItems, reads |-> 1]
       ELSE [status |-> "ok", error |-> "none",
             items |-> PickFields(NoItems, fields, RealSlug(slug), Matter(d[FullPath(slug)])),
             reads |-> 1]

\* line 44: the filter's predicate
IsPublished(post) == "publish" \in DOMAIN post /\ Truthy(post.publish)

\* post1.date > post2.date: a comparison with undefined is false
DateGt(post1, post2) ==
    /\ "date" \in DOMAIN post1
    /\ "date" \in DOMAIN post2
    /\ StrGt(post1.date.s, post2.date.s)

\* the comparator with its results exchanged: ascending dates
ComparePostsAscending(post1, post2) == IF DateGt(post1, post2) THEN 1 ELSE -1

\* line 45: the comparator handed to sort
ComparePosts(post1, post2) == IF DateGt(post1, post2) THEN -1 ELSE 1

\* Array.prototype.sort on a short array: each element is inserted into the
\* sorted prefix at the place a binary search with the comparator finds
RECURSIVE InsertAt(_, _, _, _)
InsertAt(sorted, pivot, left, right) ==
    IF left >= right THEN SubSeq(sorted, 1, left) \o <<pivot>> \o Drop(sorted, left)
    ELSE LET mid == left + ((right - left) \div 2)
         IN IF ComparePosts(pivot, sorted[mid + 1]) < 0
            THEN InsertAt(sorted, pivot, left, mid)
            ELSE InsertAt(sorted, pivot, mid + 1, right)

RECURSIVE SortPosts(_, _)
SortPosts(sorted, rest) ==
    IF rest = <<>> THEN sorted
    ELSE SortPosts(InsertAt(sorted, Head(rest), 0, Len(sorted)), Tail(rest))

\* the date is not fetched unless the caller asks for it
AllPostsFieldsWithoutDate(fields) == <<"publish">> \o fields

\* line 43: the fields getAllPosts fetches
AllPostsFields(fields) == <<"date", "publish">> \o fields

\* getAllPosts leaving out the entries whose getPostBySlug throws
GetAllPostsSkipping(d, listing, fields) ==
    LET fetched == [i \in 1..Len(listing) |-> GetPostBySlug(d, listing[i], AllPostsFields(fields))]
        read == SelectSeq(fetched, LAMBDA r : r.status = "ok")
        posts == [i \in 1..Len(read) |-> read[i].items]
    IN [status |-> "ok", error |-> "none",
        list |-> SortPosts(<<>>, SelectSeq(posts, IsPublished)),
        reads |-> Len(listing)]

\* lines 40-47: getAllPosts(fields) when readdirSync returned listing.  map
\* stops at the first entry whose getPostBySlug throws.
GetAllPosts(d, listing, fields) ==
    LET fetched == [i \in 1..Len(listing) |-> GetPostBySlug(d, listing[i], AllPostsFields(fields))]
        failed == {i \in 1..Len(listing) : fetched[i].status = "error"}
        first == CHOOSE i \in failed : \A j \in failed : i <= j
        posts == [i \in 1..Len(listing) |-> fetched[i].items]
    IN IF failed # {}
       THEN [status |-> "error", error |-> fetched[first].error, list |-> <<>>, reads |-> first]
       ELSE [status |-> "ok", error |-> "none",
             list |-> SortPosts(<<>>, SelectSeq(posts, IsPublished)),
             reads |-> Len(listing)]


---------------------------------------------------------------------------
(* pages/posts/[slug]: the static-generation hooks *)

\* lines 173-180: the fields of a post page
PageFields == <<"title", "date", "slug", "author", "content", "coverImage">>

\* lines 202-215: getStaticPaths() when readdirSync returned listing
GetStaticPaths(d, listing) ==
    LET posts == GetAllPosts(d, listing, <<"slug">>)
    IN [posts EXCEPT !.list = [i \in 1..Len(posts.list) |-> posts.list[i].slug.s]]

\* lines 172-200: getStaticProps({params: {slug}}); the props' post is the
\* fetched post with its content replaced by markdownToHtml's, and the list is
\* the props' headings
GetStaticProps(d, mode, slug) ==
    LET post == GetPostBySlug(d, slug, PageFields)
        html == MarkdownToHtml(IF "content" \in DOMAIN post.items THEN post.items.content.s ELSE <<>>, mode)
    IN IF post.status = "error" THEN [post EXCEPT !.items = NoItems] @@ [list |-> <<>>]
       ELSE IF ~html.returned
           THEN [status |-> "running", error |-> "none", items |-> NoItems, list |-> <<>>, reads |-> 1]
       ELSE [status |-> "ok", error |-> "none",
             items |-> Put(post.items, "content", Str(html.content)),
             list |-> L2Headings(html.content), reads |-> 1]

---------------------------------------------------------------------------
(* The content directories of the model *)

Data(publish, date) == ("publish" :> publish) @@ ("date" :> Str(date))

\* a file: the data of its front-matter block and the text after the block
File(data, body) == [kind |-> "file", data |-> data, content |-> body, malformed |-> FALSE]

Date9 == <<"9">>
Date10 == <<"1", "0">>

\* published, with a title
PostPublished == File(Data(Bool(TRUE), Date9) @@ ("title" :> Str(<<"T">>)), ImageX)
\* published, with another date
PostPublished10 == File(Data(Bool(TRUE), Date10), TextLine)
\* publish: false
PostUnpublished == File(Data(Bool(FALSE), Date9), TextLine)
\* no publish key
PostDraft == File("date" :> Str(Date10), TextLine)
\* publish: no, which YAML reads as the string "no"
PostPublishNo == File(Data(Str(<<"n", "o">>), Date9), TextLine)
\* published, with a slug key in the front-matter
PostSlugKey == File(Data(Bool(TRUE), Date9) @@ ("slug" :> Str(<<"b">>)), LinkX \o ImageX)
\* publish: false, and front-matter that is not valid YAML
PostBroken == [PostUnpublished EXCEPT !.malformed = TRUE]
\* published, without a date
PostNoDate == File("publish" :> Bool(TRUE), TextLine)
\* published, with a body that opens with a line of three dashes, a line of
\* text and a second line of three dashes
PostBodyBlock == File(Data(Bool(TRUE), Date9), FrontMatterBlock \o TextLine)
\* the line of a level-two heading, and the line of a code fence
HeadingLine == HeadingMark \o Word \o NewLine
Fence == <<Backtick, Backtick, Backtick>> \o NewLine
\* published, with a heading and a fenced code block that holds a line "## Ab"
PostFenced == File(Data(Bool(TRUE), Date9), HeadingLine \o Fence \o HeadingLine \o Fence)
\* a sub-directory
SubDirectory == [kind |-> "directory", data |-> NoItems, content |-> <<>>, malformed |-> FALSE]

Entries ==
    {PostPublished, PostPublished10, PostUnpublished, PostDraft, PostPublishNo,
     PostSlugKey, PostNoDate, PostBodyBlock, PostFenced, PostBroken, SubDirectory}

\* two posts and an entry without the extension
Names == {<<"a">> \o DotMd, <<"b">> \o DotMd, <<"a">>}

Directories ==
    UNION {[S -> Entries] : S \in {S \in SUBSET Names : Cardinality(S) <= MaxEntries}}

\* the slugs getPostBySlug is called with: entry names, names without .md and
\* names with .md twice
SlugArgs == Names \cup {RealSlug(n) : n \in Names} \cup {<<"a">> \o DotMd \o DotMd}

\* the field lists of the callers: none, the slug alone, the title alone,
\* the index page's and the post page's
FieldLists ==
    {<<>>, <<"slug">>, <<"title">>, <<"title", "date", "slug", "excerpt">>, PageFields}

NoCall == [op |-> "none", slug |-> <<>>, fields |-> <<>>, listing |-> <<>>]
NoRet == [status |-> "none", error |-> "none", items |-> NoItems, list |-> <<>>, reads |-> 0]
NoPaths == [known |-> FALSE, list |-> <<>>]

MdIdle == mdPc = "idle" /\ mdIn = <<>> /\ content = <<>> /\ lastIndex = 0

---------------------------------------------------------------------------
(* The build: calls on a content directory *)

Init ==
    /\ env \in Modes
    /\ dir \in Directories
    /\ call = NoCall
    /\ ret = NoRet
    /\ paths = NoPaths
    /\ cache = {}
    /\ MdIdle
    /\ IdIdle

\* Calls do not overlap: each runs to completion before the next is made
Idle == call.op = "none"

\* The build of the post pages ends the run: once getStaticPaths has returned
\* its paths, getStaticProps is called for them and nothing else is
Building == paths.known

CallGetPostSlugs ==
    \E listing \in Listings(dir) :
        /\ Idle /\ ~Building
        /\ call' = [NoCall EXCEPT !.op = "getPostSlugs", !.listing = listing]
        /\ ret' = [NoRet EXCEPT !.status = "ok", !.list = listing]
        /\ UNCHANGED <<env, dir, paths, cache, mdPc, mdIn, content, lastIndex, idVars>>

CallGetPostBySlug ==
    \E slug \in SlugArgs, fields \in FieldLists :
        /\ Idle /\ ~Building
        /\ call' = [NoCall EXCEPT !.op = "getPostBySlug", !.slug = slug, !.fields = fields]
        /\ ret' = GetPostBySlug(dir, slug, fields) @@ [list |-> <<>>]
        /\ cache' = CacheAfter(dir, <<slug>>, 1)
        /\ UNCHANGED <<env, dir, paths, mdPc, mdIn, content, lastIndex, idVars>>

CallGetAllPosts ==
    \E listing \in Listings(dir), fields \in FieldLists :
        /\ Idle /\ ~Building
        /\ call' = [NoCall EXCEPT !.op = "getAllPosts", !.fields = fields, !.listing = listing]
        /\ ret' = GetAllPosts(dir, listing, fields) @@ [items |-> NoItems]
        /\ cache' = CacheAfter(dir, listing, ret'.reads)
        /\ UNCHANGED <<env, dir, paths, mdPc, mdIn, content, lastIndex, idVars>>

CallGetStaticPaths ==
    \E listing \in Listings(dir) :
        /\ Idle /\ ~Building
        /\ call' = [NoCall EXCEPT !.op = "getStaticPaths", !.listing = listing]
        /\ ret' = GetStaticPaths(dir, listing) @@ [items |-> NoItems]
        /\ paths' = [known |-> ret'.status = "ok", list |-> ret'.list]
        /\ cache' = CacheAfter(dir, listing, ret'.reads)
        /\ UNCHANGED <<env, dir, mdPc, mdIn, content, lastIndex, idVars>>

\* fallback: false: a page is generated for the paths of getStaticPaths only
CallGetStaticProps ==
    /\ Idle /\ Building
    /\ \E i \in 1..Len(paths.list) :
        /\ call' = [NoCall EXCEPT !.op = "getStaticProps", !.slug = paths.list[i]]
        /\ ret' = GetStaticProps(dir, env, paths.list[i])
        /\ cache' = CacheAfter(dir, <<paths.list[i]>>, 1)
        /\ UNCHANGED <<env, dir, paths, mdPc, mdIn, content, lastIndex, idVars>>

\* the caller has taken the result; an exception ends the build
Return ==
    /\ ~Idle
    /\ ret.status # "error"
    /\ call' = NoCall
    /\ ret' = NoRet
    /\ UNCHANGED <<env, dir, paths, cache, mdPc, mdIn, content, lastIndex, idVars>>

Next ==
    \/ CallGetPostSlugs
    \/ CallGetPostBySlug
    \/ CallGetAllPosts
    \/ CallGetStaticPaths
    \/ CallGetStaticProps
    \/ Return

Spec == Init /\ [][Next]_vars

---------------------------------------------------------------------------
(* The development server: calls of the repository in one process, between *)
(* changes of the content directory                                        *)

InitEdits ==
    /\ env \in Modes
    /\ dir = [n \in {} |-> SubDirectory]
    /\ call = NoCall
    /\ ret = NoRet
    /\ paths = NoPaths
    /\ cache = {}
    /\ MdIdle
    /\ IdIdle

\* the server has caught the exception of a call and goes on
Caught ==
    /\ ~Idle
    /\ ret.status = "error"
    /\ call' = NoCall
    /\ ret' = NoRet
    /\ UNCHANGED <<env, dir, paths, cache, mdVars, idVars>>

\* an entry is added to the directory
AddEntry ==
    \E n \in Names \ DOMAIN dir, e \in Entries :
        /\ Idle
        /\ Cardinality(DOMAIN dir) < MaxEntries
        /\ dir' = [x \in (DOMAIN dir) \cup {n} |-> IF x = n THEN e ELSE dir[x]]
        /\ UNCHANGED <<env, call, ret, paths, cache, mdVars, idVars>>

\* an entry is removed from the directory
RemoveEntry ==
    \E n \in DOMAIN dir :
        /\ Idle
        /\ dir' = [x \in (DOMAIN dir) \ {n} |-> dir[x]]
        /\ UNCHANGED <<env, call, ret, paths, cache, mdVars, idVars>>

\* a file is edited: its front-matter (the publish flag with it) or its text
EditEntry ==
    \E n \in DOMAIN dir : \E e \in Entries \ {dir[n], SubDirectory} :
        /\ Idle
        /\ dir[n].kind = "file"
        /\ dir' = [dir EXCEPT ![n] = e]
        /\ UNCHANGED <<env, call, ret, paths, cache, mdVars, idVars>>

NextEdits ==
    \/ CallGetPostSlugs
    \/ CallGetPostBySlug
    \/ CallGetAllPosts
    \/ Return
    \/ Caught
    \/ AddEntry
    \/ RemoveEntry
    \/ EditEntry

SpecEdits == InitEdits /\ [][NextEdits]_vars

---------------------------------------------------------------------------
(* One call of markdownToHtml, statement by statement *)

InitMd ==
    /\ env \in Modes
    /\ dir = [n \in {} |-> SubDirectory]
    /\ call = NoCall
    /\ ret = NoRet
    /\ paths = NoPaths
    /\ cache = {}
    /\ mdPc = "matter"
    /\ mdIn \in Documents
    /\ content = <<>>
    /\ lastIndex = 0
    /\ IdIdle

\* line 6, and the test of line 8
MdMatter ==
    /\ mdPc = "matter"
    /\ content' = MatterContent(mdIn)
    /\ mdPc' = IF InProduction(env) THEN "loop" ELSE "returned"
    /\ UNCHANGED <<env, dir, call, ret, paths, cache, mdIn, lastIndex, idVars>>

\* lines 12-13: exec found a match
MdRewrite ==
    /\ mdPc = "loop"
    /\ Len(content) <= MaxContentLen
    /\ RegexExec(content, lastIndex).found
    /\ content' = RewriteMatch(content, RegexExec(content, lastIndex).path)
    /\ lastIndex' = RegexExec(content, lastIndex).lastIndex
    /\ UNCHANGED <<env, dir, call, ret, paths, cache, mdPc, mdIn, idVars>>

\* line 12: exec returned null; line 17
MdReturn ==
    /\ mdPc = "loop"
    /\ ~RegexExec(content, lastIndex).found
    /\ mdPc' = "returned"
    /\ lastIndex' = 0
    /\ UNCHANGED <<env, dir, call, ret, paths, cache, mdIn, content, idVars>>

NextMd == MdMatter \/ MdRewrite \/ MdReturn

SpecMd == InitMd /\ [][NextMd]_vars


---------------------------------------------------------------------------
(* The identifiers of headings: a call of generateIdFromText, and the render *)
(* of the table of contents and of the body of a post with one heading       *)

InitIds ==
    /\ env \in Modes
    /\ dir = [n \in {} |-> SubDirectory]
    /\ call = NoCall
    /\ ret = NoRet
    /\ paths = NoPaths
    /\ cache = {}
    /\ MdIdle
    /\ text \in IdInputs
    /\ idRet = NoId
    /\ toc = NoToc
    /\ h2 = NoId

CallGenerateIdFromText ==
    /\ idRet = NoId
    /\ toc = NoToc
    /\ idRet' = GenerateIdFromText(text)
    /\ UNCHANGED <<repoVars, mdVars, text, toc, h2>>

\* [slug].tsx line 157: the table of contents of the headings getStaticProps
\* took from the content
RenderTableOfContents ==
    /\ TypeOf(text) = "string"
    /\ idRet = NoId
    /\ toc = NoToc
    /\ toc' = TableOfContents(L2Headings(HeadingMark \o text.s \o NewLine))
    /\ UNCHANGED <<repoVars, mdVars, text, idRet, h2>>

\* [slug].tsx line 158: the body, rendered after the table of contents
RenderPostBody ==
    /\ toc.status = "ok"
    /\ h2 = NoId
    /\ h2' = H2(text.s)
    /\ UNCHANGED <<repoVars, mdVars, text, idRet, toc>>

\* generateIdFromText called with the identifier it returned
CallGenerateIdFromTextAgain ==
    /\ idRet.status = "ok"
    /\ toc = NoToc
    /\ text' = Str(idRet.id)
    /\ idRet' = GenerateIdFromText(Str(idRet.id))
    /\ UNCHANGED <<repoVars, mdVars, toc, h2>>

NextIds ==
    \/ CallGenerateIdFromText
    \/ CallGenerateIdFromTextAgain
    \/ RenderTableOfContents
    \/ RenderPostBody

SpecIds == InitIds /\ [][NextIds]_vars

---------------------------------------------------------------------------
(* Properties of the post repository, checked under Spec *)

Requested(fields) == {fields[i] : i \in 1..Len(fields)}

Returned(op) == call.op = op /\ ret.status = "ok"

\* the entries whose front-matter has publish: true, the boolean
StrictlyPublished ==
    {n \in DOMAIN dir :
        /\ dir[n].kind = "file"
        /\ "publish" \in DOMAIN dir[n].data
        /\ dir[n].data.publish = Bool(TRUE)}

\* C1: the list getAllPosts returns holds exactly the posts whose publish is
\* the boolean true, each once: every listed post has publish = true and there
\* are as many listed posts as files with publish = true.
C1_ListsExactlyPublishTrue ==
    Returned("getAllPosts") =>
        /\ \A i \in 1..Len(ret.list) : ret.list[i].publish = Bool(TRUE)
        /\ Len(ret.list) = Cardinality(StrictlyPublished)

\* C2: when every listed post has a date, the list getAllPosts returns is in
\* descending date order under string comparison: no post is followed by one
\* with a greater date, whatever the order of the directory listing.
C2_SortedByDateDescending ==
    (Returned("getAllPosts") /\ \A i \in 1..Len(ret.list) : "date" \in DOMAIN ret.list[i]) =>
        \A i \in 1..(Len(ret.list) - 1) : ~StrGt(ret.list[i + 1].date.s, ret.list[i].date.s)

\* C2 witness: two posts with different dates that the directory listing gave
\* in ascending order come back in descending order
C2_Witness ==
    /\ Returned("getAllPosts")
    /\ Len(ret.list) = 2
    /\ call.listing[1] # call.listing[2]
    /\ \A i \in 1..2 : "date" \in DOMAIN ret.list[i]
    /\ \A i \in 1..2 : "date" \in DOMAIN dir[FullPath(call.listing[i])].data
    /\ StrGt(ret.list[1].date.s, ret.list[2].date.s)
    /\ dir[FullPath(call.listing[1])].data.date = ret.list[2].date
    /\ dir[FullPath(call.listing[2])].data.date = ret.list[1].date

\* C3: with "slug" among the fields, getPostBySlug returns as slug the name of
\* the file it read without the .md extension, whatever the front-matter holds.
C3_SlugIsFileName ==
    (Returned("getPostBySlug") /\ "slug" \in Requested(call.fields)) =>
        ret.items.slug = Str(RealSlug(call.slug))

\* C4: every page getStaticProps builds for a path of getStaticPaths is built
\* from a file whose front-matter publish is the boolean true.
C4_PagesOnlyOfPublished ==
    Returned("getStaticProps") => FullPath(call.slug) \in StrictlyPublished

\* C5: the slugs in a list getAllPosts returns with "slug" requested are
\* pairwise distinct.
C5_SlugsDistinct ==
    (Returned("getAllPosts") /\ "slug" \in Requested(call.fields)) =>
        \A i, j \in 1..Len(ret.list) : i # j => ret.list[i].slug # ret.list[j].slug

\* C6: every key of the object getPostBySlug returns is a requested field.
C6_OnlyRequestedFields ==
    Returned("getPostBySlug") => DOMAIN ret.items \subseteq Requested(call.fields)

\* C6 witness: the title alone is requested of a file whose front-matter also
\* has publish and date, and the title alone is returned
C6_Witness ==
    /\ Returned("getPostBySlug")
    /\ call.fields = <<"title">>
    /\ {"publish", "date", "title"} \subseteq DOMAIN dir[FullPath(call.slug)].data
    /\ DOMAIN ret.items = {"title"}

\* C7: on a file that can be read and parsed getPostBySlug raises no error; a
\* requested field other than slug and content that the front-matter lacks is
\* not a key of the result, and every requested field the front-matter has is
\* returned with the front-matter's value.
C7_AbsentFieldsOmitted ==
    (call.op = "getPostBySlug" /\ ReadError(dir, FullPath(call.slug)) = "none") =>
        /\ ret.status = "ok"
        /\ \A f \in Requested(call.fields) :
            LET data == dir[FullPath(call.slug)].data
            IN /\ (f \notin {"slug", "content"} /\ f \notin DOMAIN data) => f \notin DOMAIN ret.items
               /\ f \in DOMAIN data => (f \in DOMAIN ret.items /\ ret.items[f] = data[f])

\* C7 witness: excerpt is requested of a file without one, next to a title
\* the file has
C7_Witness ==
    /\ Returned("getPostBySlug")
    /\ {"excerpt", "title"} \subseteq Requested(call.fields)
    /\ "title" \in DOMAIN dir[FullPath(call.slug)].data
    /\ "excerpt" \notin DOMAIN dir[FullPath(call.slug)].data
    /\ "title" \in DOMAIN ret.items
    /\ "excerpt" \notin DOMAIN ret.items

\* C8 as stated: getPostBySlug called with a slug for which the directory has
\* no file <slug>.md fails and returns no object.
C8_FailsWithoutSlugDotMd ==
    (call.op = "getPostBySlug" /\ (call.slug \o DotMd) \notin DOMAIN dir) =>
        (ret.status = "error" /\ ret.items = NoItems)

\* C8 amended: getPostBySlug called with a slug for which the directory has no
\* file <realSlug>.md, realSlug being the slug without one trailing .md, fails
\* with an I/O error after a single read and returns no object.
C8_FailsWithoutRealSlugDotMd ==
    (/\ call.op = "getPostBySlug"
     /\ \/ FullPath(call.slug) \notin DOMAIN dir
        \/ dir[FullPath(call.slug)].kind # "file") =>
        /\ ret.status = "error"
        /\ ret.error \in {"ENOENT", "EISDIR"}
        /\ ret.items = NoItems
        /\ ret.reads = 1

\* C8 witness: a call for a slug whose file is missing from a directory that
\* holds other files has failed
C8_Witness ==
    /\ call.op = "getPostBySlug"
    /\ dir # <<>>
    /\ FullPath(call.slug) \notin DOMAIN dir
    /\ ret.status = "error"
    /\ ret.error = "ENOENT"

\* the entries of the listing that getPostBySlug cannot read or parse
FailingEntries(listing) ==
    {i \in 1..Len(listing) : ReadError(dir, FullPath(listing[i])) # "none"}

\* C9: when reading or parsing any entry of the directory fails, getAllPosts
\* fails as a whole and returns no list.
C9_OneFailureFailsAll ==
    (call.op = "getAllPosts" /\ FailingEntries(call.listing) # {}) =>
        (ret.status = "error" /\ ret.list = <<>>)

\* C9 witness: the only failing entry is an unpublished post with broken
\* front-matter, listed after a published post that reads well
C9_Witness ==
    /\ call.op = "getAllPosts"
    /\ Len(call.listing) = 2
    /\ dir[call.listing[1]] = PostPublished
    /\ dir[call.listing[2]] = PostBroken
    /\ FailingEntries(call.listing) = {2}
    /\ ret.status = "error"

---------------------------------------------------------------------------
(* Properties of markdownToHtml, checked under SpecMd *)

\* body with the base path put before the path of every image reference the
\* regular expression finds in it, scanning from position from
RECURSIVE PrefixEveryImage(_, _)
PrefixEveryImage(body, from) ==
    LET m == RegexExec(body, from)
    IN IF ~m.found THEN body
       ELSE PrefixEveryImage(SubSeq(body, 1, m.sep + 1) \o BasePath \o Drop(body, m.sep + 1),
                             m.lastIndex + Len(BasePath))

\* C10: in production mode markdownToHtml returns the body with every image
\* reference ![alt](path) rewritten to ![alt](/blog<path>), each exactly once.
C10_EveryImageRewrittenOnce ==
    (mdPc = "returned" /\ env = "production") =>
        content = PrefixEveryImage(MatterContent(mdIn), 0)

DoubledBasePath == <<"]", "(">> \o BasePath \o BasePath

\* C11: in production mode an image reference whose path already starts with
\* /blog is returned unchanged: no path of the output starts with /blog/blog
\* unless one of the input did.
C11_NoDoubledBasePath ==
    (mdPc = "returned" /\ env = "production" /\ IndexOf(MatterContent(mdIn), DoubledBasePath) = 0) =>
        IndexOf(content, DoubledBasePath) = 0

\* the text after the front-matter block of the documents: the block is the
\* first Len(FrontMatterBlock) characters of the document that has one
BodyOf(document) ==
    IF Len(document) >= Len(FrontMatterBlock)
            /\ \A i \in 1..Len(FrontMatterBlock) : document[i] = FrontMatterBlock[i]
        THEN [i \in 1..(Len(document) - Len(FrontMatterBlock)) |-> document[i + Len(FrontMatterBlock)]]
        ELSE document

\* C12: in non-production mode markdownToHtml returns exactly the body text
\* that follows the front-matter block of its input, no character of it changed.
C12_BodyUnchangedOutsideProduction ==
    (mdPc = "returned" /\ env # "production") => content = BodyOf(mdIn)

\* C12 witness: a document with a front-matter block and an image reference
\* has been returned in development mode, its image path as it was
C12_Witness ==
    /\ mdPc = "returned"
    /\ env = "development"
    /\ mdIn = FrontMatterBlock \o ImageX
    /\ content = ImageX

\* The loop is in a state it comes back to for ever: the image reference found
\* has a path without replacement patterns; the first "](" + path of content
\* lies in the part already scanned and is still there after the replacement
\* (the replacement begins with the pattern), so every later replacement is made
\* at that same place; and the scan position advances by exactly the growth of
\* content, so the next scan starts on the same unscanned text and finds the
\* same image reference.  By induction the same holds of the next state.
LoopRepeatsForEver ==
    LET m == RegexExec(content, lastIndex)
        pattern == <<"]", "(">> \o m.path
        i == IndexOf(content, pattern)
        replaced == RewriteMatch(content, m.path)
    IN /\ mdPc = "loop"
       /\ m.found
       /\ \A k \in 1..Len(m.path) : m.path[k] # "$"
       /\ i + Len(pattern) - 1 <= lastIndex
       /\ StartsWithAt(replaced, i, pattern)
       /\ m.lastIndex = lastIndex + (Len(replaced) - Len(content))

\* C18: for every document and in both modes markdownToHtml runs to completion:
\* the rewrite loop makes finitely many iterations, so the call is never in a
\* state from which the loop repeats for ever.
C18_LoopTerminates == ~LoopRepeatsForEver

---------------------------------------------------------------------------
(* Properties of generateIdFromText and of its call sites, checked under SpecIds *)

LowerLetters == {LowerCase[i] : i \in 1..Len(LowerCase)}
UpperLetters == {UpperCase[i] : i \in 1..Len(UpperCase)}

\* the lower-case letter of a letter
Lowered(c) ==
    IF c \in LowerLetters THEN c
    ELSE CHOOSE l \in LowerLetters : \E i \in 1..Len(LowerCase) : LowerCase[i] = l /\ UpperCase[i] = c

\* each space a hyphen, each letter its lower-case letter, position by position
Hyphenated(s) == [i \in 1..Len(s) |-> IF s[i] = " " THEN "-" ELSE Lowered(s[i])]

\* s between its first and its last character that is not white space
Stripped(s) ==
    LET inked == {i \in 1..Len(s) : s[i] \notin {" ", "\t", "\n"}}
        first == CHOOSE i \in inked : \A j \in inked : i <= j
        last == CHOOSE i \in inked : \A j \in inked : i >= j
    IN IF inked = {} THEN <<>> ELSE [i \in 1..(last - first + 1) |-> s[first + i - 1]]

LettersAndSpaces(s) == \A i \in 1..Len(s) : s[i] \in LowerLetters \cup UpperLetters \cup {" "}

\* C13 as stated: for a string of letters and spaces only, generateIdFromText
\* returns the lower-cased string with each space replaced by a hyphen, of the
\* length of the input, character for character.
C13_LowerCasedAndHyphenated ==
    (idRet # NoId /\ text.t = "string" /\ LettersAndSpaces(text.s)) =>
        (idRet.status = "ok" /\ idRet.id = Hyphenated(text.s))

\* C13: for a string of letters and spaces only, generateIdFromText returns the
\* string without its leading and trailing spaces, lower-cased, each space left
\* replaced by a hyphen, of the length of the trimmed input, character for
\* character.
C13_TrimmedLowerCasedAndHyphenated ==
    (idRet # NoId /\ text.t = "string" /\ LettersAndSpaces(text.s)) =>
        (idRet.status = "ok" /\ idRet.id = Hyphenated(Stripped(text.s)))

\* C13 witness: a heading of letters and spaces with a space before, inside and
\* after its words has been given its identifier
C13_Witness ==
    /\ text = Str(Space \o Word \o Space \o Word \o Space)
    /\ idRet.status = "ok"
    /\ Len(idRet.id) = 2 * Len(Word) + 1

\* The position after the span that begins at position i, a backtick, one or
\* more letters of the set letters and a backtick; 0 when none begins there
SpanAfter(s, i, letters) ==
    LET ends == {j \in (i + 2)..Len(s) :
                    /\ s[i] = Backtick
                    /\ s[j] = Backtick
                    /\ \A k \in (i + 1)..(j - 1) : s[k] \in letters}
    IN IF i > Len(s) \/ ends = {} THEN 0 ELSE 1 + CHOOSE j \in ends : \A k \in ends : j <= k

\* s from position i on without its spans of the set letters, found from left
\* to right
RECURSIVE WithoutSpansFrom(_, _, _)
WithoutSpansFrom(s, i, letters) ==
    IF i > Len(s) THEN <<>>
    ELSE IF SpanAfter(s, i, letters) # 0 THEN WithoutSpansFrom(s, SpanAfter(s, i, letters), letters)
    ELSE <<s[i]>> \o WithoutSpansFrom(s, i + 1, letters)

WithoutSpans(s, letters) == WithoutSpansFrom(s, 1, letters)

\* steps (2) to (5): trim, keep the letters and the spaces, lower-case the
\* letters, make each space a hyphen
Derived(s) ==
    LET trimmed == Stripped(s)
        keeps == {i \in 1..Len(trimmed) : trimmed[i] \in LowerLetters \cup UpperLetters \cup {" "}}
        \* the position in trimmed of the n-th character kept
        at(n) == CHOOSE i \in keeps : Cardinality({j \in keeps : j <= i}) = n
    IN Hyphenated([n \in 1..Cardinality(keeps) |-> trimmed[at(n)]])

\* the spans of s are spans of lower-case letters, and there is one
HasLowerCaseSpansOnly(s) ==
    /\ WithoutSpans(s, LowerLetters) # s
    /\ WithoutSpans(s, LowerLetters) = WithoutSpans(s, LowerLetters \cup UpperLetters)

UseFooHere == Word \o Space \o CodeLower \o Space \o Word

\* C14 as stated: the single-word lower-case code spans of a string are removed
\* before the identifier is derived, so that a span between two spaces leaves
\* one hyphen between the words around it ("Use `foo` here" gives "use-here").
C14_SpansRemovedOneHyphenLeft ==
    (idRet # NoId /\ text.t = "string" /\ HasLowerCaseSpansOnly(text.s)) =>
        /\ idRet.status = "ok"
        /\ idRet.id = Derived(WithoutSpans(text.s, LowerLetters))
        /\ text.s = UseFooHere => idRet.id = Hyphenated(Word \o Space \o Word)

\* C14: the single-word lower-case code spans of a string are removed before
\* the identifier is derived, and the spaces on both sides of a removed span
\* are both kept ("Use `foo` here" gives "use--here").
C14_SpansRemovedBothSpacesKept ==
    (idRet # NoId /\ text.t = "string" /\ HasLowerCaseSpansOnly(text.s)) =>
        /\ idRet.status = "ok"
        /\ idRet.id = Derived(WithoutSpans(text.s, LowerLetters))
        /\ text.s = UseFooHere => idRet.id = Hyphenated(Word \o Space \o Space \o Word)

\* C14 witness: the identifier of a heading with a lower-case code span between
\* two words has been made
C14_Witness ==
    /\ text = Str(UseFooHere)
    /\ idRet.status = "ok"
    /\ \A i \in 1..Len(idRet.id) : idRet.id[i] # Backtick

\* C15 as stated: for every string generateIdFromText equals the pipeline
\* (1) remove the backtick spans of lower-case letters, and no other span,
\* (2) trim, (3) keep letters and spaces only, (4) lower-case, (5) a hyphen for
\* each space kept, none collapsed.
C15_PipelineLowerCaseSpans ==
    (idRet # NoId /\ text.t = "string") =>
        (idRet.status = "ok" /\ idRet.id = Derived(WithoutSpans(text.s, LowerLetters)))

\* C15: for every string generateIdFromText equals the pipeline (1) remove the
\* backtick spans of letters of either case, and no other span, (2) trim,
\* (3) keep letters and spaces only, (4) lower-case, (5) a hyphen for each
\* space kept, none collapsed.
C15_PipelineLetterSpans ==
    (idRet # NoId /\ text.t = "string") =>
        (idRet.status = "ok" /\ idRet.id = Derived(WithoutSpans(text.s, LowerLetters \cup UpperLetters)))

\* C15 witness: the identifier of a string with an upper-case span, a digit, a
\* punctuation mark and two consecutive spaces has been made
C15_Witness ==
    /\ text = Str(CodeUpper \o Other \o Space \o Space \o Word)
    /\ idRet.status = "ok"
    /\ idRet.id = <<"-", "-", "a", "b">>

\* C16: generateIdFromText called with a value that is not a string throws and
\* returns no identifier; called with a string, the empty one included, it
\* returns.
C16_ThrowsExactlyOnNonStrings ==
    idRet # NoId =>
        /\ text \in NonStrings => (idRet.status = "error" /\ idRet.id = <<>>)
        /\ text.t = "string" => idRet.status = "ok"

\* C16 witness: a call with a React element has thrown
C16_Witness ==
    /\ text = Element(Word)
    /\ idRet.status = "error"

\* C17: the id PostBody sets on the h2 of a level-two heading is the fragment
\* of the link TableOfContents makes for that heading, whatever inline code
\* spans the heading has.
C17_HeadingIdIsLinkFragment ==
    (toc.status = "ok" /\ Len(toc.hrefs) = 1 /\ h2 # NoId) =>
        /\ h2.status = "ok"
        /\ toc.hrefs[1] = <<"#">> \o h2.id

\* C23: rendering the body of a post never raises the error of
\* generateIdFromText: the first child of every h2 ReactMarkdown hands to the
\* h2 component is a string, also when the heading begins with an inline code
\* span.
C23_FirstChildIsAString == h2 # NoId => h2.status # "error"

\* the number of positions of s that hold the character c
Count(s, c) == Cardinality({i \in 1..Len(s) : s[i] = c})

\* C27: for every string the identifier generateIdFromText returns is made of
\* the characters a-z and "-" only, is never longer than the input, and has
\* exactly as many hyphens as the input, without its code spans and trimmed,
\* has spaces.
C27_AlphabetLengthAndHyphens ==
    (idRet # NoId /\ text.t = "string") =>
        /\ idRet.status = "ok"
        /\ \A i \in 1..Len(idRet.id) : idRet.id[i] \in LowerLetters \cup {"-"}
        /\ Len(idRet.id) <= Len(text.s)
        /\ Count(idRet.id, "-") =
               Count(Stripped(WithoutSpans(text.s, LowerLetters \cup UpperLetters)), " ")

\* C27 witness: the identifier of a string with an upper-case letter, a space,
\* a code span, a digit and a punctuation mark has been made, shorter than the
\* string and with one hyphen
C27_Witness ==
    /\ text = Str(Word \o Space \o CodeLower \o Other \o Word)
    /\ idRet.status = "ok"
    /\ Len(idRet.id) < Len(text.s)
    /\ Count(idRet.id, "-") = 1

\* s without its hyphens
RECURSIVE WithoutHyphens(_)
WithoutHyphens(s) ==
    IF s = <<>> THEN s
    ELSE IF Head(s) = "-" THEN WithoutHyphens(Tail(s))
    ELSE <<Head(s)>> \o WithoutHyphens(Tail(s))

\* C29: generateIdFromText applied to an identifier it returned returns that
\* identifier with every hyphen removed and nothing else changed; the
\* identifier is returned as it is exactly when it has no hyphen, and then
\* every further application returns it again.
C29_ReapplyingRemovesHyphens ==
    [][(idRet.status = "ok" /\ text' = Str(idRet.id) /\ idRet' # NoId) =>
           /\ idRet'.status = "ok"
           /\ idRet'.id = WithoutHyphens(idRet.id)
           /\ idRet'.id = idRet.id <=> Count(idRet.id, "-") = 0
           /\ Count(idRet.id, "-") = 0 => idRet' = idRet]_vars

\* C29 witness: the identifier "ab-ab" has been given to generateIdFromText
\* again, which returned "abab"
C29_Witness ==
    /\ text = Str(<<"a", "b", "-", "a", "b">>)
    /\ idRet.status = "ok"
    /\ idRet.id = <<"a", "b", "a", "b">>

---------------------------------------------------------------------------
(* The content getPostBySlug returns, checked under Spec *)

\* getPostBySlug has returned the content of a file whose front-matter parses
\* and has no content key
ContentReturned ==
    /\ Returned("getPostBySlug")
    /\ "content" \in DOMAIN ret.items
    /\ ~dir[FullPath(call.slug)].malformed
    /\ "content" \notin DOMAIN dir[FullPath(call.slug)].data

---------------------------------------------------------------------------
(* The repository between changes of the directory, checked under SpecEdits *)

\* the entry read for slug is, as the directory is now, a file that parses
Readable(slug) ==
    /\ FullPath(slug) \in DOMAIN dir
    /\ dir[FullPath(slug)].kind = "file"
    /\ ~dir[FullPath(slug)].malformed

\* C19: getPostSlugs, getPostBySlug and getAllPosts keep no state between
\* calls: whatever calls and changes of the directory came before, the result
\* of a call is the one the directory of the time of the call gives.  The
\* slugs are the entries of the directory; a post is fetched when its file
\* reads and parses and its fields are the ones of the file; the posts are
\* listed when every entry reads and parses, one for each entry published.
C19_ResultsOfTheDirectoryAlone ==
    /\ call.op = "getPostSlugs" =>
        /\ {ret.list[i] : i \in 1..Len(ret.list)} = DOMAIN dir
        /\ Len(ret.list) = Cardinality(DOMAIN dir)
    /\ call.op = "getPostBySlug" =>
        /\ ret.status = "ok" <=> Readable(call.slug)
        /\ ret.status = "ok" =>
            \A f \in DOMAIN ret.items :
                ret.items[f] = IF f \in DOMAIN dir[FullPath(call.slug)].data
                                   THEN dir[FullPath(call.slug)].data[f]
                               ELSE IF f = "slug" THEN Str(RealSlug(call.slug))
                               ELSE Str(dir[FullPath(call.slug)].content)
    /\ call.op = "getAllPosts" =>
        /\ ret.status = "ok" <=> \A i \in 1..Len(call.listing) : Readable(call.listing[i])
        /\ ret.status = "ok" =>
            Len(ret.list) = Cardinality({i \in 1..Len(call.listing) :
                                            /\ "publish" \in DOMAIN dir[FullPath(call.listing[i])].data
                                            /\ Truthy(dir[FullPath(call.listing[i])].data.publish)})

---------------------------------------------------------------------------
(* The posts of getAllPosts and the slugs of getPostBySlug, checked under Spec *)

\* the file getAllPosts reads for the i-th entry of the listing
FileOfEntry(i) == dir[FullPath(call.listing[i])]

\* the entries of the listing that getAllPosts keeps
KeptEntries ==
    {i \in 1..Len(call.listing) :
        /\ "publish" \in DOMAIN FileOfEntry(i).data
        /\ Truthy(FileOfEntry(i).data.publish)}

\* C21: every post getAllPosts(fields) returns has the keys date and publish
\* whenever the front-matter of its file defines them, requested or not, and
\* has besides them the fields of the caller only.
C21_DateAndPublishAlwaysFetched ==
    Returned("getAllPosts") =>
        /\ \A k \in 1..Len(ret.list) :
            /\ DOMAIN ret.list[k] \subseteq Requested(call.fields) \cup {"date", "publish"}
            /\ \E i \in KeptEntries :
                \A key \in {"date", "publish"} :
                    IF key \in DOMAIN FileOfEntry(i).data
                        THEN key \in DOMAIN ret.list[k] /\ ret.list[k][key] = FileOfEntry(i).data[key]
                        ELSE key \notin DOMAIN ret.list[k]
        /\ Cardinality({k \in 1..Len(ret.list) : "date" \in DOMAIN ret.list[k]})
            = Cardinality({i \in KeptEntries : "date" \in DOMAIN FileOfEntry(i).data})

\* C21 witness: getAllPosts asked for the title alone has returned a post with
\* its title, its date and its publish flag
C21_Witness ==
    /\ Returned("getAllPosts")
    /\ call.fields = <<"title">>
    /\ Len(ret.list) = 1
    /\ DOMAIN ret.list[1] = {"title", "date", "publish"}

\* no file of the directory has front-matter that does not parse
EveryFileParses == \A n \in DOMAIN dir : ~dir[n].malformed

\* C24: for every entry name getPostSlugs returns, getPostBySlug(name, ["slug"])
\* succeeds and returns the name without its trailing .md, so getAllPosts
\* succeeds on every directory, the ones with entries that do not end in .md
\* or that are sub-directories included.
C24_EveryEntryIsFetched ==
    /\ (call.op = "getPostBySlug" /\ call.slug \in DOMAIN dir /\ call.fields = <<"slug">>
            /\ EveryFileParses) =>
        (ret.status = "ok" /\ ret.items = [f \in {"slug"} |-> Str(RealSlug(call.slug))])
    /\ (call.op = "getAllPosts" /\ EveryFileParses) => ret.status = "ok"

\* C28: for a slug s that does not end in .md, getPostBySlug(s, fields) and
\* getPostBySlug(s + ".md", fields) read the same file and give the same
\* result, and the slug returned is s.  (A call that threw on front-matter
\* left the text in matter.cache, and is compared by the file it read.)
C28_TrailingDotMdIgnored ==
    (call.op = "getPostBySlug" /\ ~EndsWith(call.slug, DotMd)) =>
        /\ FullPath(call.slug \o DotMd) = FullPath(call.slug)
        /\ ret.error # "YAMLException" =>
            LET other == GetPostBySlug(dir, call.slug \o DotMd, call.fields)
            IN ret.status = other.status /\ ret.error = other.error /\ ret.items = other.items
        /\ (ret.status = "ok" /\ "slug" \in Requested(call.fields)) =>
            ret.items.slug = Str(call.slug)

---------------------------------------------------------------------------
(* What the rewrite leaves alone, checked under SpecMd *)

\* s without the paths of the image references the regular expression finds in
\* it, scanning from position from
RECURSIVE WithoutImagePaths(_, _)
WithoutImagePaths(s, from) ==
    LET m == RegexExec(s, from)
    IN IF ~m.found THEN s
       ELSE WithoutImagePaths(SubSeq(s, 1, m.sep + 1) \o Drop(s, m.lastIndex - 1), m.sep + 2)

\* the number of image references the regular expression finds in s from from
RECURSIVE ImageCount(_, _)
ImageCount(s, from) ==
    LET m == RegexExec(s, from)
    IN IF ~m.found THEN 0 ELSE 1 + ImageCount(s, m.lastIndex)

\* C22: in production mode the rewrite changes the paths of image references
\* only: all the rest of the body, an ordinary link with the path of an image
\* included, is in the output as it was, and the output is 5 characters longer
\* for each image reference.
C22_OnlyImagePathsChange ==
    (mdPc = "returned" /\ env = "production") =>
        /\ WithoutImagePaths(content, 0) = WithoutImagePaths(MatterContent(mdIn), 0)
        /\ Len(content) = Len(MatterContent(mdIn)) + Len(BasePath) * ImageCount(MatterContent(mdIn), 0)

---------------------------------------------------------------------------
(* The content of the post page, checked under Spec *)

\* getStaticProps has returned the page of a file whose front-matter parses and
\* has no content key
PageReturned ==
    /\ call.op = "getStaticProps"
    /\ ret.status = "ok"
    /\ ~dir[FullPath(call.slug)].malformed
    /\ "content" \notin DOMAIN dir[FullPath(call.slug)].data

\* C26: outside production the content of the post page, the content of
\* getPostBySlug passed through markdownToHtml, is the body of the file, also
\* when the body itself opens with a block between two lines of three dashes:
\* stripping the front-matter twice is stripping it once.
C26_PageContentIsBodyOfFile ==
    (PageReturned /\ env # "production") =>
        ret.items.content = Str(dir[FullPath(call.slug)].content)

\* C25: the headings getStaticProps computes for the table of contents are the
\* level-two headings PostBody renders as h2, in the order of the document and
\* one entry for each: a line "## ..." inside a fenced code block is not
\* listed, and every h2 rendered is listed.
C25_HeadingsAreTheRenderedH2 ==
    PageReturned => ret.list = RenderedHeadings(ret.items.content.s)

====
